---- MODULE Spec2Model ----
(***************************************************************************)
(* The three SVD drivers of src/GSL/lapack-aux.c (svd_l_Rdd, svd_l_R,      *)
(* svd_l_C) as a state machine over an explicit heap.  Every thread runs   *)
(* one invocation at a time; an invocation walks through the statements of *)
(* the driver it called.  The LAPACK kernels (dgesdd_, dgesvd_, zgesvd_)   *)
(* are external: a kernel call is a step whose status, and what it leaves  *)
(* in the recommendation slot, are chosen by the environment.              *)
(***************************************************************************)
EXTENDS Integers, Sequences, FiniteSets

VARIABLES
    pc,         \* pc[t]: the statement thread t's invocation is at
    op,         \* op[t]: the driver thread t called
    args,       \* args[t]: the dimensions passed (ar, ac, ur, uc, sn, vr, vc)
    loc,        \* loc[f]: the locals of stack frame f (m, n, q, B, aux, ans, lwk, work, res)
    ret,        \* ret[t]: the value the last invocation of t returned
    mem,        \* mem[a]: contents of address a (heap blocks and caller buffers)
    allocated,  \* heap addresses malloc has handed out and free has not taken back
    mine,       \* mine[t]: blocks t's current invocation allocated and has not freed
    obs,        \* obs[t]: what t's current invocation has done so far (log)
    lastAcc,    \* the heap blocks the last memory access touched that were not the
                \* accessing invocation's own live blocks
    sizeBits    \* the width of size_t in the build that is running

vars == <<pc, op, args, loc, ret, mem, allocated, mine, obs, lastAcc, sizeBits>>

----------------------------------------------------------------------------
(* Bounds of the model *)

\* input dimensions range over 1..MaxDim
MaxDim == 2
\* number of heap addresses
HeapSize == 3
\* the kernel's recommendation ranges over 1/2 .. MaxAns2/2
MaxAns2 == 3

----------------------------------------------------------------------------
(* Program constants *)

BAD_SIZE == 1000
MEM == 1002

Ops == {"svd_l_Rdd", "svd_l_R", "svd_l_C"}

\* The contents of a matrix buffer are followed as one value: 1 and 2 are two
\* input matrices, 0 is what the kernel leaves in the matrix it was handed
\* and what an output buffer holds before any kernel wrote it.  The kernel's
\* three factors of matrix v are written v.
Vals == {1, 2}

AllThreads == {1, 2}

NULL == 0
Heap == 1..HeapSize

\* The caller's buffers of thread t: input, left vectors, singular values,
\* right vectors (ap, up, sp, vp of the parameter lists).
Ap(t) == HeapSize + 4 * (t - 1) + 1
Up(t) == HeapSize + 4 * (t - 1) + 2
Sp(t) == HeapSize + 4 * (t - 1) + 3
Vp(t) == HeapSize + 4 * (t - 1) + 4
CallerAddrs == UNION {{Ap(t), Up(t), Sp(t), Vp(t)} : t \in AllThreads}

MIN(a, b) == IF a < b THEN a ELSE b

\* The locals of an invocation are automatic: each invocation has its own frame.
FrameOfStatic(t) == 1
FrameOf(t) == t

\* REQUIRES(ur==m && uc==m && sn==q && vr==n && vc==n, BAD_SIZE)
ShapeOKNoV(a) == a.ur = a.ar /\ a.uc = a.ar /\ a.sn = MIN(a.ar, a.ac)
ShapeOK(a) ==
    /\ a.ur = a.ar /\ a.uc = a.ar
    /\ a.sn = MIN(a.ar, a.ac)
    /\ a.vr = a.ac /\ a.vc = a.ac

\* The output dimensions a caller may pass for an m x n input: the required
\* ones, and each one of the five off by one.
GoodShape(m, n) ==
    [ar |-> m, ac |-> n, ur |-> m, uc |-> m, sn |-> MIN(m, n), vr |-> n, vc |-> n]
Shapes(m, n) ==
    LET g == GoodShape(m, n) IN
    {g, [g EXCEPT !.ur = @ + 1], [g EXCEPT !.uc = @ + 1], [g EXCEPT !.sn = @ + 1],
        [g EXCEPT !.vr = @ + 1], [g EXCEPT !.vc = @ + 1]}
FewShapes(m, n) == {GoodShape(m, n), [GoodShape(m, n) EXCEPT !.vr = @ + 1]}

\* doubles per matrix element: 2*m*n for the complex driver
Elems(o) == IF o = "svd_l_C" THEN 2 ELSE 1

\* malloc(m*n*sizeof(double)), malloc(2*m*n*sizeof(double))
CopyCount(o, m, n) == Elems(o) * m * n

\* memcpy(B,ap,m*n*sizeof(double)), memcpy(B,ap,m*n*2*sizeof(double)): the
\* number of doubles copied
CopyLen(o, m, n) == IF o = "svd_l_C" THEN m * n * 2 ELSE m * n

\* malloc(8*q*sizeof(int)) in svd_l_Rdd, malloc(5*q*sizeof(double)) in svd_l_C
AuxCount(o, q) == IF o = "svd_l_Rdd" THEN 8 * q ELSE 5 * q
AuxType(o) == IF o = "svd_l_Rdd" THEN "int" ELSE "double"
HasAux(o) == o # "svd_l_R"

\* ceil of a double held as twice its value (ans2 = 2*ans)
Ceil(ans2) == (ans2 + 1) \div 2

\* lwk = 2*ceil(ans) in svd_l_Rdd, lwork = ceil(ans) in svd_l_R and svd_l_C
LwkNoDouble(o, ans2) == Ceil(ans2)
Lwk(o, ans2) == IF o = "svd_l_Rdd" THEN 2 * Ceil(ans2) ELSE Ceil(ans2)

\* malloc(lwk*sizeof(double)), malloc(lwork*2*sizeof(double))
WorkCountPlain(o, lwk) == lwk
WorkCount(o, lwk) == IF o = "svd_l_C" THEN lwk * 2 ELSE lwk

\* The statement that follows statement p in driver o when p does not
\* return: memcpy, [aux malloc,] first kernel call, work malloc, second
\* kernel call.
NextPcNoWork(o, p) ==
    CASE p = "mallocB"    -> "memcpy"
      [] p = "memcpy"     -> IF HasAux(o) THEN "mallocAux" ELSE "query"
      [] p = "mallocAux"  -> "query"
      [] p = "query"      -> "exec"
      [] p = "mallocWork" -> "exec"
NextPcAuxLate(o, p) ==
    CASE p = "mallocB"    -> "memcpy"
      [] p = "memcpy"     -> "query"
      [] p = "query"      -> IF HasAux(o) THEN "mallocAux" ELSE "mallocWork"
      [] p = "mallocAux"  -> "mallocWork"
      [] p = "mallocWork" -> "exec"
NextPc(o, p) ==
    CASE p = "mallocB"    -> "memcpy"
      [] p = "memcpy"     -> IF HasAux(o) THEN "mallocAux" ELSE "query"
      [] p = "mallocAux"  -> "query"
      [] p = "query"      -> "mallocWork"
      [] p = "mallocWork" -> "exec"

\* the order of the free() calls at the end of each driver
FreeOrderTwice(o) == <<"work", "B", "B">>
FreeOrder(o) ==
    CASE o = "svd_l_Rdd" -> <<"aux", "work", "B">>
      [] o = "svd_l_R"   -> <<"work", "B">>
      [] o = "svd_l_C"   -> <<"work", "aux", "B">>
FreePcs == <<"free1", "free2", "free3">>

\* memcpy(B, ap, ...): the destination's new contents
MemcpyNone(dst, src) == dst
Memcpy(dst, src) == src

\* CHECK(!p, MEM): whether the test after a malloc makes the call return
CheckNever(p) == FALSE
CheckNull(p) == p = NULL

\* CHECK(res, res): the value returned for a nonzero kernel status
RetCodeOne(res) == IF res > 0 THEN 1 ELSE res
RetCode(res) == res

\* the matrix argument of both kernel calls is the private copy B
MatrixArgInput(t) == Ap(t)
MatrixArg(t) == loc[FrameOf(t)].B

\* The builds: int has 32 bits in both, size_t has 32 or 64.
SizeWidths == {32, 64}

\* 2^32 / sizeof(ty): the number of elements at which count*sizeof(ty) wraps
\* around a 32-bit size_t (sizeof(int) = 4, sizeof(double) = 8)
ElemsPerWrap(ty) == IF ty = "int" THEN 1073741824 ELSE 536870912

\* malloc(count*sizeof(ty)) with count an int: the number of elements the
\* request amounts to once count is converted to size_t and the product is
\* taken modulo 2^bits, or -1 when the request exceeds what an allocator
\* serves (half the address space).  With 64 bits the product of a
\* non-negative int and 8 never wraps, and a negative count converts to more
\* than 2^63; with 32 bits the product wraps at ElemsPerWrap(ty) elements.
Granted(count, ty, bits) ==
    IF bits = 64
      THEN IF count >= 0 THEN count ELSE -1
      ELSE LET e == count % ElemsPerWrap(ty)
           IN IF 2 * e < ElemsPerWrap(ty) THEN e ELSE -1

\* What malloc may return for a request that amounts to got elements: NULL,
\* or the lowest free address.
FreeAddrs == Heap \ allocated
LowestFree == CHOOSE a \in FreeAddrs : \A b \in FreeAddrs : a <= b
MallocResults(got) ==
    {NULL} \cup (IF got >= 0 /\ FreeAddrs # {} THEN {LowestFree} ELSE {})

\* What a block fresh from malloc may hold.  Only the contents of matrix
\* buffers are followed; the scratch arrays are the kernel's own business.
Junk(fld) == IF fld = "B" THEN {0} \cup Vals ELSE {0}
FewJunk(fld) == IF fld = "B" THEN {0, 1} ELSE {0}

\* statuses the environment's kernel may write
QueryStatuses == {0, -1}
ExecStatuses == {-1, 0, 1, BAD_SIZE, MEM}
\* what an unwritten double may hold (twice its value)
Indeterminate == {-2, 0, MaxAns2}

\* A workload: the sets the callers and the kernel draw from.
Workload ==
    [dims |-> 1..MaxDim, vals |-> Vals, wide |-> TRUE,
     qstat |-> QueryStatuses, ans |-> 1..MaxAns2, unwritten |-> Indeterminate,
     xstat |-> ExecStatuses]
\* The workload of the two-thread specification: 1 x 1 inputs holding the
\* value 1 and a kernel that answers from fewer values, so that the product
\* of two invocations stays small; every interleaving is kept.
SmallWorkload ==
    [dims |-> {1}, vals |-> {1}, wide |-> FALSE,
     qstat |-> {0}, ans |-> {MaxAns2}, unwritten |-> {},
     xstat |-> {0, 1}]

FreshFrame(a) ==
    [m |-> a.ar, n |-> a.ac, q |-> MIN(a.ar, a.ac),
     B |-> NULL, aux |-> NULL, work |-> NULL, ans |-> 0, lwk |-> 0, res |-> 0]
FreshObs(v) ==
    [allocs |-> <<>>, kcalls |-> <<>>, frees |-> <<>>, in0 |-> v, copied |-> 0]

Touch(t, addrs) == (addrs \cap Heap) \ mine[t]

----------------------------------------------------------------------------
Init ==
    /\ pc = [t \in AllThreads |-> "idle"]
    /\ op = [t \in AllThreads |-> "svd_l_R"]
    /\ args = [t \in AllThreads |-> GoodShape(1, 1)]
    /\ loc = [f \in AllThreads |-> FreshFrame(GoodShape(1, 1))]
    /\ ret = [t \in AllThreads |-> 0]
    /\ mem = [a \in Heap \cup CallerAddrs |-> 0]
    /\ allocated = {}
    /\ mine = [t \in AllThreads |-> {}]
    /\ obs = [t \in AllThreads |-> FreshObs(0)]
    /\ lastAcc = {}
    /\ sizeBits \in SizeWidths

\* mem with fresh output buffers for t and without the contents of the blocks
\* t's previous invocation left allocated
Forgotten(t) ==
    [x \in DOMAIN mem |->
        IF x \in {Up(t), Sp(t), Vp(t)} \cup mine[t] THEN 0 ELSE mem[x]]

\* The caller passes its buffers and dimensions; lines 41-44 (83, 137) run.
\* The blocks the previous invocation of t left allocated stay allocated, and
\* no pointer to them is left: their contents are not followed any further.
Call(t, W) ==
    /\ pc[t] \in {"idle", "done"}
    /\ LET base == Forgotten(t) IN
       \E o \in Ops, m \in W.dims, n \in W.dims, v \in W.vals :
         \E a \in (IF W.wide THEN Shapes(m, n) ELSE FewShapes(m, n)) :
            /\ op' = [op EXCEPT ![t] = o]
            /\ args' = [args EXCEPT ![t] = a]
            /\ mem' = [base EXCEPT ![Ap(t)] = v]
            /\ loc' = [loc EXCEPT ![FrameOf(t)] = FreshFrame(a)]
            /\ obs' = [obs EXCEPT ![t] = FreshObs(v)]
            /\ mine' = [mine EXCEPT ![t] = {}]
            /\ IF ShapeOK(a)
                 THEN pc' = [pc EXCEPT ![t] = "mallocB"] /\ ret' = [ret EXCEPT ![t] = 0]
                 ELSE pc' = [pc EXCEPT ![t] = "done"] /\ ret' = [ret EXCEPT ![t] = BAD_SIZE]
    /\ UNCHANGED <<allocated, lastAcc, sizeBits>>

\* One malloc followed by its CHECK(!p, MEM): field fld of the frame gets the
\* pointer; on NULL the invocation returns MEM at once.
MallocStep(t, W, fld, count, ty) ==
    \E p \in MallocResults(Granted(count, ty, sizeBits)) :
        /\ obs' = [obs EXCEPT ![t].allocs =
                      Append(@, [fld |-> fld, n |-> count, ty |-> ty, p |-> p,
                                 got |-> Granted(count, ty, sizeBits)])]
        /\ loc' = [loc EXCEPT ![FrameOf(t)][fld] = p]
        /\ IF CheckNull(p)
             THEN /\ pc' = [pc EXCEPT ![t] = "done"]
                  /\ ret' = [ret EXCEPT ![t] = MEM]
                  /\ UNCHANGED <<allocated, mine, mem>>
             ELSE /\ pc' = [pc EXCEPT ![t] = NextPc(op[t], pc[t])]
                  /\ allocated' = allocated \cup {p}
                  /\ mine' = [mine EXCEPT ![t] = @ \cup {p}]
                  /\ \E j \in (IF W.wide THEN Junk(fld) ELSE FewJunk(fld)) : mem' = [mem EXCEPT ![p] = j]
                  /\ UNCHANGED ret
        /\ UNCHANGED <<op, args, lastAcc, sizeBits>>

\* double *B = malloc(...); CHECK(!B,MEM);
MallocB(t, W) ==
    /\ pc[t] = "mallocB"
    /\ LET f == loc[FrameOf(t)] IN
       MallocStep(t, W, "B", CopyCount(op[t], f.m, f.n), "double")

\* the destination of memcpy(B, ap, ...)
CopyDstOutput(t) == Up(t)
CopyDst(t) == loc[FrameOf(t)].B

\* memcpy(B, ap, ...)
CopyInput(t) ==
    /\ pc[t] = "memcpy"
    /\ LET f == loc[FrameOf(t)] IN
        /\ mem' = [mem EXCEPT ![CopyDst(t)] = Memcpy(mem[CopyDst(t)], mem[Ap(t)])]
        /\ obs' = [obs EXCEPT ![t].copied = CopyLen(op[t], f.m, f.n)]
        /\ lastAcc' = Touch(t, {CopyDst(t)})
    /\ pc' = [pc EXCEPT ![t] = NextPc(op[t], "memcpy")]
    /\ UNCHANGED <<op, args, loc, ret, allocated, mine, sizeBits>>

\* int *iwk = malloc(8*q*sizeof(int)) / double *rwork = malloc(5*q*sizeof(double))
MallocAux(t, W) ==
    /\ pc[t] = "mallocAux"
    /\ MallocStep(t, W, "aux", AuxCount(op[t], loc[FrameOf(t)].q), AuxType(op[t]))

\* The buffers a kernel call is handed: the matrix, the auxiliary array of
\* svd_l_Rdd and svd_l_C, and the work array (the first call is handed the
\* local ans in its place).
KernelBufs(t, query, work) ==
    {MatrixArg(t)} \cup (IF HasAux(op[t]) THEN {loc[FrameOf(t)].aux} ELSE {})
                   \cup (IF query THEN {} ELSE {work})

\* The log entry of a kernel call: its arguments (mat and its contents matc,
\* aux, lwork, work; query tells that work is &ans), whether every buffer
\* handed over is a live block of this invocation, what the kernel wrote
\* (status res, and the recommendation val when wrote), and how many mallocs
\* preceded it.
KCall(t, query, lwork, work, res, wrote, val) ==
    [query |-> query, mat |-> MatrixArg(t), matc |-> mem[MatrixArg(t)],
     own |-> MatrixArg(t) \in mine[t],
     live |-> KernelBufs(t, query, work) \subseteq mine[t],
     aux |-> loc[FrameOf(t)].aux, lwork |-> lwork, work |-> work,
     res |-> res, wrote |-> wrote, val |-> val, nalloc |-> Len(obs[t].allocs)]

\* The first kernel call (lwork = -1, work = &ans), then lwk = ...ceil(ans).
\* The kernel writes its status into res; it writes the recommendation into
\* ans when it succeeds and leaves ans as it was when it reports an error.
Query(t, W) ==
    /\ pc[t] = "query"
    /\ \E qres \in W.qstat :
       \E a2 \in (IF qres = 0 THEN W.ans ELSE W.unwritten) :
          /\ loc' = [loc EXCEPT ![FrameOf(t)].res = qres,
                                ![FrameOf(t)].ans = a2,
                                ![FrameOf(t)].lwk = Lwk(op[t], a2)]
          /\ obs' = [obs EXCEPT ![t].kcalls =
                        Append(@, KCall(t, TRUE, -1, NULL, qres, qres = 0,
                                        IF qres = 0 THEN a2 ELSE 0))]
    /\ lastAcc' = Touch(t, {MatrixArg(t), loc[FrameOf(t)].aux})
    /\ pc' = [pc EXCEPT ![t] = NextPc(op[t], "query")]
    /\ UNCHANGED <<op, args, ret, mem, allocated, mine, sizeBits>>

\* double *work = malloc(lwk*sizeof(double)); CHECK(!work,MEM);
MallocWork(t, W) ==
    /\ pc[t] = "mallocWork"
    /\ MallocStep(t, W, "work", WorkCount(op[t], loc[FrameOf(t)].lwk), "double")

\* The second kernel call and CHECK(res,res).  With a status >= 0 the kernel
\* has overwritten its matrix argument and written the three outputs, which
\* are a function of the matrix it was handed.
Exec(t, W) ==
    /\ pc[t] = "exec"
    /\ LET f == loc[FrameOf(t)]
           mat == MatrixArg(t)
       IN \E xres \in W.xstat :
          /\ loc' = [loc EXCEPT ![FrameOf(t)].res = xres]
          /\ obs' = [obs EXCEPT ![t].kcalls =
                        Append(@, KCall(t, FALSE, f.lwk, f.work, xres, FALSE, 0))]
          /\ mem' = IF xres >= 0
                      THEN [mem EXCEPT ![mat] = 0, ![Up(t)] = mem[mat],
                                       ![Sp(t)] = mem[mat], ![Vp(t)] = mem[mat]]
                      ELSE mem
          /\ lastAcc' = Touch(t, {mat, f.aux, f.work})
          /\ IF xres # 0
               THEN pc' = [pc EXCEPT ![t] = "done"] /\ ret' = [ret EXCEPT ![t] = RetCode(xres)]
               ELSE pc' = [pc EXCEPT ![t] = "free1"] /\ UNCHANGED ret
    /\ UNCHANGED <<op, args, allocated, mine, sizeBits>>

\* One free() of the closing sequence; after the last one, OK returns 0.
Free(t) ==
    \E k \in 1..Len(FreeOrder(op[t])) :
        /\ pc[t] = FreePcs[k]
        /\ LET p == loc[FrameOf(t)][FreeOrder(op[t])[k]] IN
            /\ allocated' = allocated \ {p}
            /\ mine' = [mine EXCEPT ![t] = @ \ {p}]
            /\ lastAcc' = Touch(t, {p})
        /\ IF k = Len(FreeOrder(op[t]))
             THEN pc' = [pc EXCEPT ![t] = "done"] /\ ret' = [ret EXCEPT ![t] = 0]
             ELSE pc' = [pc EXCEPT ![t] = FreePcs[k + 1]] /\ UNCHANGED ret
        /\ obs' = [obs EXCEPT ![t].frees =
                      Append(@, [p |-> loc[FrameOf(t)][FreeOrder(op[t])[k]],
                                 held |-> loc[FrameOf(t)][FreeOrder(op[t])[k]]
                                              \in mine[t]])]
        /\ UNCHANGED <<op, args, loc, mem, sizeBits>>

Step(t, W) ==
    \/ Call(t, W)
    \/ MallocB(t, W)
    \/ CopyInput(t)
    \/ MallocAux(t, W)
    \/ Query(t, W)
    \/ MallocWork(t, W)
    \/ Exec(t, W)
    \/ Free(t)

\* one thread calling the drivers again and again
Next == Step(1, Workload)
Spec == Init /\ [][Next]_vars

\* Recommendations (twice their value) at the edges of the int range and of
\* the byte counts: 1/2, 1, 2^28, 2^29, 2^29 + 1, 2^30 - 1.
ExtremeAns == {1, 2, 536870912, 1073741824, 1073741826, 2147483646}
\* The workload of the size calculations: a 1 x 1 input, a kernel that may
\* recommend an extreme workspace or report an error from its query, and an
\* unwritten slot that may hold any of these values, zero or a negative one.
WideWorkload ==
    [dims |-> {1}, vals |-> {1}, wide |-> FALSE,
     qstat |-> QueryStatuses, ans |-> ExtremeAns,
     unwritten |-> ExtremeAns \cup {0, -2, -1073741824},
     xstat |-> {0, -1}]
NextSize == Step(1, WideWorkload)
SpecSize == Init /\ [][NextSize]_vars

\* two threads calling the drivers concurrently
NextConc == \E t \in AllThreads : Step(t, SmallWorkload)
SpecConc == Init /\ [][NextConc]_vars

----------------------------------------------------------------------------
(* What an invocation has done *)

Done(t) == pc[t] = "done"
NAlloc(t) == Len(obs[t].allocs)
NKern(t) == Len(obs[t].kcalls)
\* the last malloc of the invocation returned NULL
AllocFailed(t) == NAlloc(t) > 0 /\ obs[t].allocs[NAlloc(t)].p = NULL
\* the allocation of the private input copy returned NULL
CopyFailed(t) == NAlloc(t) > 0 /\ obs[t].allocs[1].p = NULL

----------------------------------------------------------------------------
\* C1: in each driver, output dimensions other than ur = m, uc = m,
\* sn = min(m, n), vr = n, vc = n make the call return BAD_SIZE with no malloc
\* and no kernel call made.
C1_BadSizeBeforeAnything ==
    \A t \in AllThreads :
        (pc[t] # "idle" /\ ~(args[t].ur = args[t].ar /\ args[t].uc = args[t].ar
                             /\ args[t].sn = MIN(args[t].ar, args[t].ac)
                             /\ args[t].vr = args[t].ac /\ args[t].vc = args[t].ac))
        => /\ Done(t) /\ ret[t] = BAD_SIZE
           /\ NAlloc(t) = 0 /\ NKern(t) = 0 /\ mine[t] = {}

C1_Witness ==
    /\ Done(1) /\ op[1] = "svd_l_C" /\ args[1].ar = 2 /\ args[1].ac = 1
    /\ args[1].vc = 2 /\ ret[1] = BAD_SIZE /\ NAlloc(1) = 0

\* C2: a scratch allocation that fails after the private input copy was
\* allocated makes the call return MEM with every buffer of the invocation
\* released.
C2_LaterAllocFailureReleasesAll ==
    \A t \in AllThreads :
        (Done(t) /\ NAlloc(t) >= 2 /\ AllocFailed(t))
        => (ret[t] = MEM /\ mine[t] = {})

\* C3: whatever status the second kernel call reports, no buffer of the
\* invocation is outstanding when the call has returned.
C3_AllReleasedAfterExec ==
    \A t \in AllThreads : (Done(t) /\ NKern(t) = 2) => mine[t] = {}

\* C4: over repeated calls, failing ones included, the number of outstanding
\* allocations after each call equals the number before the first call.
C4_NoGrowthOfOutstanding ==
    Done(1) => Cardinality(allocated) = 0

\* C5: when the shape check and all allocations succeed, the value returned
\* is the status the second kernel call wrote, whatever the first call wrote.
C5_ReturnIsExecStatus ==
    \A t \in AllThreads :
        (Done(t) /\ NKern(t) = 2) => ret[t] = obs[t].kcalls[2].res

C5_Witness ==
    /\ Done(1) /\ NKern(1) = 2
    /\ obs[1].kcalls[1].res = -1 /\ obs[1].kcalls[2].res = 1 /\ ret[1] = 1

\* C6: the value returned tells the five outcomes apart.
Outcome(t) ==
    IF ~ShapeOK(args[t]) THEN "size-mismatch"
    ELSE IF AllocFailed(t) THEN "out-of-memory"
    ELSE IF obs[t].kcalls[2].res = 0 THEN "success"
    ELSE IF obs[t].kcalls[2].res < 0 THEN "kernel-invalid-argument"
    ELSE "kernel-convergence-failure"
Decode(r) ==
    IF r = 0 THEN "success"
    ELSE IF r = BAD_SIZE THEN "size-mismatch"
    ELSE IF r = MEM THEN "out-of-memory"
    ELSE IF r < 0 THEN "kernel-invalid-argument"
    ELSE "kernel-convergence-failure"
C6_OutcomesDistinguishable ==
    \A t \in AllThreads : Done(t) => Decode(ret[t]) = Outcome(t)

\* C7: when the allocation of the private input copy fails the call returns
\* MEM at once: no further malloc, no kernel call, nothing outstanding.
C7_CopyAllocFailure ==
    \A t \in AllThreads :
        CopyFailed(t) =>
            /\ Done(t) /\ ret[t] = MEM
            /\ NAlloc(t) = 1 /\ NKern(t) = 0 /\ mine[t] = {}

C7_Witness ==
    /\ Done(1) /\ CopyFailed(1) /\ ret[1] = MEM /\ op[1] = "svd_l_Rdd"
    /\ allocated # Heap

\* C8: both kernel calls get the private copy, a live block of the
\* invocation that held the caller's input at the first call (all m*n
\* doubles of it, 2*m*n in the complex driver, which is the size of the
\* block), never the caller's input buffer; the caller's input is as it was
\* passed at every point of the invocation, its return included.
C8_InputNeverTouched ==
    \A t \in AllThreads :
        /\ pc[t] # "idle" => mem[Ap(t)] = obs[t].in0
        /\ \A i \in 1..NKern(t) :
              /\ obs[t].kcalls[i].mat # Ap(t)
              /\ obs[t].kcalls[i].own
        /\ NKern(t) >= 1 =>
              /\ obs[t].kcalls[1].matc = obs[t].in0
              /\ obs[t].copied =
                    (IF op[t] = "svd_l_C" THEN 2 ELSE 1) * args[t].ar * args[t].ac
              /\ obs[t].copied = obs[t].allocs[1].n

C8_Witness ==
    /\ Done(1) /\ NKern(1) = 2 /\ ret[1] = 0 /\ op[1] = "svd_l_C"
    /\ obs[1].in0 = 2 /\ mem[Ap(1)] = 2 /\ mem[Up(1)] = 2
    /\ args[1].ar = 2 /\ args[1].ac = 1 /\ obs[1].copied = 4

\* C9: under any interleaving of two invocations, no scratch buffer is
\* accessed or freed by an invocation other than the one that allocated it,
\* no block belongs to two invocations, and the pointers an invocation keeps
\* are the ones malloc gave to it (no other invocation writes its variables).
C9_ScratchIsPrivate ==
    /\ lastAcc = {}
    /\ mine[1] \cap mine[2] = {}
    /\ \A t \in AllThreads :
          \A i \in 1..NAlloc(t) : loc[t][obs[t].allocs[i].fld] = obs[t].allocs[i].p

C9_Witness ==
    /\ pc[1] = "mallocWork" /\ pc[2] = "exec"
    /\ mine[1] # {} /\ mine[2] # {} /\ lastAcc = {}

\* C10: two calls of the same driver with the same input, output dimensions,
\* allocation outcomes and kernel answers return the same status and leave
\* the same values in the three outputs, whatever calls were made before.
Key(t) ==
    <<op[t], args[t], obs[t].in0,
      [i \in 1..NAlloc(t) |-> obs[t].allocs[i].p # NULL],
      [i \in 1..NKern(t) |->
          <<obs[t].kcalls[i].res, obs[t].kcalls[i].wrote, obs[t].kcalls[i].val>>]>>
Result(t) == <<ret[t], mem[Up(t)], mem[Sp(t)], mem[Vp(t)]>>
C10_SameCallSameResult ==
    (Done(1) /\ Done(2) /\ Key(1) = Key(2)) => Result(1) = Result(2)

C10_Witness ==
    /\ Done(1) /\ Done(2) /\ Key(1) = Key(2)
    /\ NKern(1) = 2 /\ ret[1] = 0 /\ mem[Sp(1)] = 1 /\ mem[Sp(2)] = 1
    /\ allocated # {}

----------------------------------------------------------------------------
\* C11: an invocation makes at most two kernel calls; the first is the size
\* query (workspace length -1, the local ans in place of the work array), the
\* second is handed the work buffer and a workspace length computed from the
\* recommendation; the work buffer is allocated after the first call and
\* before the second; and an invocation whose shape test and allocations all
\* succeed does not return before it has made both calls.
WorkAllocs(t, lo, hi) ==
    {i \in lo..hi : i \in 1..NAlloc(t) /\ obs[t].allocs[i].fld = "work"}
C11_TwoPhaseProtocol ==
    \A t \in AllThreads :
        LET k == obs[t].kcalls IN
        /\ NKern(t) <= 2
        /\ NKern(t) >= 1 =>
              /\ k[1].query /\ k[1].lwork = -1
              /\ WorkAllocs(t, 1, k[1].nalloc) = {}
        /\ NKern(t) = 2 =>
              /\ ~k[2].query
              /\ \E i \in WorkAllocs(t, k[1].nalloc + 1, k[2].nalloc) :
                    /\ obs[t].allocs[i].p # NULL
                    /\ obs[t].allocs[i].p = k[2].work
              /\ k[1].wrote =>
                    k[2].lwork \in {Ceil(k[1].val), 2 * Ceil(k[1].val)}
        /\ (Done(t) /\ ShapeOK(args[t]) /\ ~AllocFailed(t)) => NKern(t) = 2
C11_Witness ==
    /\ Done(1) /\ ret[1] = 0 /\ op[1] = "svd_l_Rdd"
    /\ NKern(1) = 2 /\ NAlloc(1) = 3

----------------------------------------------------------------------------
\* the buffers a driver allocates, in the order of its malloc statements
AllocOrder(o) == IF HasAux(o) THEN <<"B", "aux", "work">> ELSE <<"B", "work">>
\* how many of them precede the first kernel call
AllocsBeforeQuery(o) == IF HasAux(o) THEN 2 ELSE 1

----------------------------------------------------------------------------
\* the least integer not below the real whose double is a2
LeastIntAbove(a2) ==
    CHOOSE c \in -MaxAns2..MaxAns2 : 2 * c >= a2 /\ 2 * (c - 1) < a2

\* C13: the workspace length handed to the second kernel call is twice the
\* ceiling of the value in the recommendation slot in svd_l_Rdd, and the
\* ceiling itself in svd_l_R and svd_l_C.
C13_WorkspaceLength ==
    \A t \in AllThreads :
        NKern(t) = 2 =>
            LET k == obs[t].kcalls
                c == LeastIntAbove(loc[FrameOf(t)].ans) IN
            /\ k[1].wrote => loc[FrameOf(t)].ans = k[1].val
            /\ k[2].lwork = IF op[t] = "svd_l_Rdd" THEN 2 * c ELSE c
C13_Witness ==
    /\ op[1] = "svd_l_Rdd" /\ NKern(1) = 2
    /\ obs[1].kcalls[1].wrote /\ obs[1].kcalls[1].val = 3
    /\ obs[1].kcalls[2].lwork = 4

----------------------------------------------------------------------------
\* the scratch allocations of an invocation, the private copy left out
Scratch(t) ==
    {[fld |-> obs[t].allocs[i].fld, n |-> obs[t].allocs[i].n,
      ty |-> obs[t].allocs[i].ty] : i \in 2..NAlloc(t)}

\* C14: with q = min(m, n) and L the workspace length handed to the second
\* kernel call, the scratch buffers requested besides the private copy are
\* exactly: in svd_l_Rdd 8*q ints and L doubles; in svd_l_R L doubles; in
\* svd_l_C 5*q doubles and 2*L doubles.
C14_ScratchSizes ==
    \A t \in AllThreads :
        NKern(t) = 2 =>
            LET q == IF args[t].ar < args[t].ac THEN args[t].ar ELSE args[t].ac
                L == obs[t].kcalls[2].lwork IN
            /\ NAlloc(t) = Cardinality(Scratch(t)) + 1
            /\ Scratch(t) =
                 CASE op[t] = "svd_l_Rdd" ->
                        {[fld |-> "aux", n |-> 8 * q, ty |-> "int"],
                         [fld |-> "work", n |-> L, ty |-> "double"]}
                   [] op[t] = "svd_l_R" ->
                        {[fld |-> "work", n |-> L, ty |-> "double"]}
                   [] op[t] = "svd_l_C" ->
                        {[fld |-> "aux", n |-> 5 * q, ty |-> "double"],
                         [fld |-> "work", n |-> 2 * L, ty |-> "double"]}
C14_Witness ==
    /\ op[1] = "svd_l_C" /\ NKern(1) = 2
    /\ args[1].ar = 2 /\ args[1].ac = 2
    /\ obs[1].kcalls[2].lwork = 2
    /\ obs[1].allocs[2].n = 10 /\ obs[1].allocs[3].n = 4

----------------------------------------------------------------------------
\* C15: every free() releases a block the invocation still holds, so no
\* block is freed twice; every buffer handed to a kernel call is a block the
\* invocation holds at that moment, so neither a freed block nor the NULL of
\* a failed malloc reaches the kernel; and no kernel call follows a free().
NoDuplicates(seq) ==
    \A i, j \in 1..Len(seq) : i # j => seq[i].p # seq[j].p
C15_BufferLifetimes ==
    \A t \in AllThreads :
        /\ \A i \in 1..Len(obs[t].frees) :
              obs[t].frees[i].held /\ obs[t].frees[i].p # NULL
        /\ NoDuplicates(obs[t].frees)
        /\ \A i \in 1..NKern(t) :
              /\ obs[t].kcalls[i].live
              /\ obs[t].kcalls[i].mat # NULL
              /\ ~obs[t].kcalls[i].query => obs[t].kcalls[i].work # NULL
              /\ HasAux(op[t]) => obs[t].kcalls[i].aux # NULL
        /\ pc[t] \in {"query", "exec"} => obs[t].frees = <<>>
C15_Witness ==
    /\ Done(1) /\ ret[1] = 0 /\ op[1] = "svd_l_Rdd"
    /\ NKern(1) = 2 /\ Len(obs[1].frees) = 3
    /\ mine[1] = {}

----------------------------------------------------------------------------
\* C17: as long as an invocation has made no kernel call, the caller's three
\* output buffers hold what they held at entry; so they do at the return of
\* a call refused for its shape and of a call whose private copy could not
\* be allocated.
OutputsAsAtEntry(t) ==
    /\ mem[Up(t)] = Forgotten(t)[Up(t)]
    /\ mem[Sp(t)] = Forgotten(t)[Sp(t)]
    /\ mem[Vp(t)] = Forgotten(t)[Vp(t)]
C17_OutputsOnlyByKernel ==
    \A t \in AllThreads :
        (pc[t] # "idle" /\ NKern(t) = 0) => OutputsAsAtEntry(t)
C17_Witness ==
    /\ Done(1) /\ CopyFailed(1) /\ ret[1] = MEM
    /\ NKern(1) = 0 /\ OutputsAsAtEntry(1)

----------------------------------------------------------------------------
\* the number of elements (doubles in svd_l_Rdd and svd_l_R, pairs of doubles
\* in svd_l_C) of the block the work malloc of t's invocation obtained
WorkElems(t) ==
    LET w == obs[t].allocs[NAlloc(t)]
    IN IF op[t] = "svd_l_C" THEN w.got \div 2 ELSE w.got

\* C16: at the second kernel call the workspace length declared to the kernel
\* does not exceed the number of elements allocated for the work buffer,
\* whatever value within the int range the first call left in the
\* recommendation slot, written or not.
C16_DeclaredFitsAllocated ==
    \A t \in AllThreads :
        NKern(t) = 2 => obs[t].kcalls[2].lwork <= WorkElems(t)

============================================================================
